---- MODULE Spec2Model ----
(***************************************************************************)
(* A model of the aPLib decompressor of src/aplib.py (and of the           *)
(* decompress() wrapper of src/aplib_py2.py).                              *)
(*                                                                         *)
(* An APLib object is a record: the input cursor (source, pos), the output *)
(* buffer (destination), the bit reader (tag, bitcount), the mode (strict) *)
(* and the locals of depack (r0, lwm, done).  A Python exception raised    *)
(* inside a method is the field exc ("TypeError", "IndexError"); every     *)
(* method passes a pending exception through unchanged, as unwinding does. *)
(* The value a method returns is left in the field ret.  The remaining     *)
(* fields record what happened, for the properties to refer to: tagpos     *)
(* (the index in source of the byte now in tag), what the last pass of     *)
(* depack did (kind, called, offs, length, n0) and badref (some dstcopy    *)
(* was called with an offset outside 1..len(output)) and nbits (the number  *)
(* of calls of getbit that have returned).                                 *)
(***************************************************************************)
EXTENDS Integers, Sequences, FiniteSets, TLC

\* ------------------------------------------------------------------ bounds
\* longest headerless input enumerated exhaustively (python 3 module)
MaxLen == 3
\* longest headerless input enumerated exhaustively (python 2 module)
MaxLenPy2 == 2
\* longest input the methods of the bit reader are called on one at a time
MaxBitLen == 3

\* ------------------------------------------------------------ small helpers
Min(a, b) == IF a < b THEN a ELSE b

IsPrefix(p, q) == Len(p) <= Len(q) /\ \A k \in 1..Len(p) : p[k] = q[k]

Take(q, n) == SubSeq(q, 1, n)

AllSeqs(S, n) == UNION {[1..k -> S] : k \in 0..n}

\* F(v), with v evaluated once: the value of a statement handed to the
\* statements that follow it
Let(v, F(_)) == CHOOSE r \in {F(x) : x \in {v}} : TRUE

\* ------------------------------------------------------------ the APLib object
\* APLib.__init__; r0, lwm, done are the locals depack starts with
NewAPLib(source, strict) ==
    [source |-> source, pos |-> 0, destination |-> <<>>, tag |-> 0,
     bitcount |-> 0, strict |-> strict,
     r0 |-> -1, lwm |-> 0, done |-> FALSE,
     exc |-> "", ret |-> 0,
     tagpos |-> 0, badref |-> FALSE, nbits |-> 0,
     kind |-> "none", called |-> FALSE, offs |-> 0, length |-> 0, n0 |-> 0]

\* read, were the bits left in tag dropped by a raw byte read
readAligned(s) ==
    IF s.exc # "" THEN s
    ELSE IF s.pos >= Len(s.source) THEN [s EXCEPT !.exc = "TypeError"]
    ELSE [s EXCEPT !.pos = @ + 1, !.ret = s.source[s.pos + 1], !.bitcount = 0]

\* APLib.read: ord(self.source.read(1)); ord(b'') raises TypeError
read(s) ==
    IF s.exc # "" THEN s
    ELSE IF s.pos >= Len(s.source) THEN [s EXCEPT !.exc = "TypeError"]
    ELSE [s EXCEPT !.pos = @ + 1, !.ret = s.source[s.pos + 1]]

\* APLib.write
write(s, value) ==
    IF s.exc # "" THEN s
    ELSE [s EXCEPT !.destination = Append(@, value)]

\* copy, were a byte of padding written when the input has run out
copyPadded(s, length) ==
    IF length <= 0 \/ s.exc # "" THEN s
    ELSE IF s.pos >= Len(s.source)
    THEN [s EXCEPT !.destination = Append(@, 0), !.exc = "TypeError"]
    ELSE Let(read(s), LAMBDA r : write(r, r.ret))

\* APLib.copy
RECURSIVE copy(_, _)
copy(s, length) ==
    IF length <= 0 \/ s.exc # "" THEN s
    ELSE Let(read(s), LAMBDA r :
         Let(write(r, r.ret), LAMBDA w : copy(w, length - 1)))

\* python's buffer[k] on a buffer of n bytes: the 0-based index read, or -1
\* when the subscript raises IndexError.  A negative k counts from the end.
PyIndex(n, k) ==
    LET i == IF k < 0 THEN n + k ELSE k
    IN  IF i < 0 \/ i >= n THEN -1 ELSE i

\* dstcopy, were the bytes taken in one slice of the output as it stands
\* before the copy
dstcopyBulk(s, offset, length) ==
    IF length <= 0 \/ s.exc # "" THEN s
    ELSE Let(PyIndex(Len(s.destination), -offset), LAMBDA i :
         IF i < 0 THEN [s EXCEPT !.exc = "IndexError"]
         ELSE [s EXCEPT !.destination =
                   @ \o SubSeq(@, i + 1, Min(Len(@), i + length))])

\* APLib.dstcopy: self.write(self.destination.getbuffer()[-offset]), length times
RECURSIVE dstcopy(_, _, _)
dstcopy(s, offset, length) ==
    IF length <= 0 \/ s.exc # "" THEN s
    ELSE Let(PyIndex(Len(s.destination), -offset), LAMBDA i :
         IF i < 0 THEN [s EXCEPT !.exc = "IndexError"]
         ELSE Let(write(s, s.destination[i + 1]), LAMBDA w :
              dstcopy(w, offset, length - 1)))

\* getbit, were the bit shifted out of the unmasked tag not masked either
getbitNoMask(s) ==
    IF s.exc # "" THEN s
    ELSE Let([s EXCEPT !.bitcount = @ - 1], LAMBDA s1 :
         Let(IF s1.bitcount < 0
             THEN Let(read(s1), LAMBDA r :
                  IF r.exc # "" THEN r
                  ELSE [r EXCEPT !.tag = r.ret, !.bitcount = 7, !.tagpos = r.pos])
             ELSE s1, LAMBDA s2 :
         IF s2.exc # "" THEN s2
         ELSE [s2 EXCEPT !.ret = s2.tag \div 128, !.tag = s2.tag * 2,
                         !.nbits = @ + 1]))

\* APLib.getbit
getbit(s) ==
    IF s.exc # "" THEN s
    ELSE Let([s EXCEPT !.bitcount = @ - 1], LAMBDA s1 :
         Let(IF s1.bitcount < 0
             THEN Let(read(s1), LAMBDA r :
                  IF r.exc # "" THEN r
                  ELSE [r EXCEPT !.tag = r.ret, !.bitcount = 7, !.tagpos = r.pos])
             ELSE s1, LAMBDA s2 :
         IF s2.exc # "" THEN s2
         ELSE [s2 EXCEPT !.ret = (s2.tag \div 128) % 2, !.tag = s2.tag * 2,
                         !.nbits = @ + 1]))

\* the while loop of APLib.getgamma
RECURSIVE gammaloop(_, _)
gammaloop(s, result) ==
    Let(getbit(s), LAMBDA a :
    IF a.exc # "" THEN a
    ELSE Let((result * 2) + a.ret, LAMBDA r1 :
         Let(getbit(a), LAMBDA b :
         IF b.exc # "" THEN b
         ELSE IF b.ret = 0 THEN [b EXCEPT !.ret = r1]
         ELSE gammaloop(b, r1))))

\* getgamma, were result started from 0
getgammaFromZero(s) == gammaloop(s, 0)

\* APLib.getgamma
getgamma(s) == gammaloop(s, 1)

\* ------------------------------------------------------- the body of depack
\* what one pass of depack leaves for the model to inspect: the instruction
\* decoded (kind), whether it called dstcopy (called) and with which
\* arguments (offs, length), and the output length it started from (n0)
begin(s, kind) ==
    [s EXCEPT !.kind = kind, !.called = FALSE, !.offs = 0, !.length = 0,
              !.n0 = Len(s.destination)]

\* dstcopy as called from depack, its arguments noted
calldstcopy(s, offset, length) ==
    IF s.exc # "" THEN s
    ELSE Let([s EXCEPT !.called = TRUE, !.offs = offset, !.length = length,
                       !.badref = @ \/ offset < 1 \/ offset > Len(s.destination)],
             LAMBDA c : dstcopy(c, offset, length))

\* first, were the verbatim byte left out
firstNoCopy(s) == begin(s, "first")

\* depack line 74: "first byte verbatim"
first(s) == Let(begin(s, "first"), LAMBDA c : copy(c, 1))

\* literal, were lwm left as it is
literalKeepsLwm(c) ==
    Let([c EXCEPT !.kind = "literal"], LAMBDA k : copy(k, 1))

\* depack lines 132-133: the literal
literal(c) ==
    Let([c EXCEPT !.kind = "literal"], LAMBDA k :
    Let(copy(k, 1), LAMBDA a :
    IF a.exc # "" THEN a ELSE [a EXCEPT !.lwm = 0]))

\* depack lines 82-83: for _ in range(4): offs = (offs << 1) + self.getbit()
RECURSIVE getbits(_, _, _)
getbits(s, n, acc) ==
    IF n <= 0 \/ s.exc # "" THEN [s EXCEPT !.ret = acc]
    ELSE Let(getbit(s), LAMBDA b :
         Let((acc * 2) + b.ret, LAMBDA v : getbits(b, n - 1, v)))

\* nibble, were its four bits assembled least-significant bit first
RECURSIVE getbitsLsb(_, _, _, _)
getbitsLsb(s, n, acc, weight) ==
    IF n <= 0 \/ s.exc # "" THEN [s EXCEPT !.ret = acc]
    ELSE Let(getbit(s), LAMBDA b :
         Let(acc + (weight * b.ret), LAMBDA v : getbitsLsb(b, n - 1, v, weight * 2)))

nibbleLsbFirst(c) ==
    Let([c EXCEPT !.kind = "nibble"], LAMBDA k :
    Let(getbitsLsb(k, 4, 0, 1), LAMBDA b :
    IF b.exc # "" THEN b
    ELSE Let(b.ret, LAMBDA offs :
         Let(IF offs # 0 THEN calldstcopy(b, offs, 1) ELSE write(b, 0), LAMBDA a :
         IF a.exc # "" THEN a
         ELSE [a EXCEPT !.lwm = 0]))))

\* depack lines 81-90: the nibble instruction
nibble(c) ==
    Let([c EXCEPT !.kind = "nibble"], LAMBDA k :
    Let(getbits(k, 4, 0), LAMBDA b :
    IF b.exc # "" THEN b
    ELSE Let(b.ret, LAMBDA offs :
         Let(IF offs # 0 THEN calldstcopy(b, offs, 1) ELSE write(b, 0), LAMBDA a :
         IF a.exc # "" THEN a
         ELSE [a EXCEPT !.lwm = 0]))))

\* short, were the low bit of the byte not added to the length
shortLengthTwo(c) ==
    Let([c EXCEPT !.kind = "short"], LAMBDA k :
    Let(read(k), LAMBDA b :
    IF b.exc # "" THEN b
    ELSE Let(b.ret \div 2, LAMBDA offs :
         Let(IF offs # 0 THEN calldstcopy(b, offs, 2)
             ELSE [b EXCEPT !.done = TRUE], LAMBDA a :
         IF a.exc # "" THEN a
         ELSE [a EXCEPT !.r0 = offs, !.lwm = 1]))))

\* depack lines 92-102: the short form and the end marker
short(c) ==
    Let([c EXCEPT !.kind = "short"], LAMBDA k :
    Let(read(k), LAMBDA b :
    IF b.exc # "" THEN b
    ELSE Let(2 + (b.ret % 2), LAMBDA length :
         Let(b.ret \div 2, LAMBDA offs :
         Let(IF offs # 0 THEN calldstcopy(b, offs, length)
             ELSE [b EXCEPT !.done = TRUE], LAMBDA a :
         IF a.exc # "" THEN a
         ELSE [a EXCEPT !.r0 = offs, !.lwm = 1])))))

\* bump, were the three tests one if/elif chain
bumpChained(offs, length) ==
    IF offs >= 32000 THEN length + 1
    ELSE IF offs >= 1280 THEN length + 1
    ELSE IF offs < 128 THEN length + 2
    ELSE length

\* depack lines 120-125: the length bumps of the gamma-coded form
bump(offs, length) ==
    length + (IF offs >= 32000 THEN 1 ELSE 0)
           + (IF offs >= 1280 THEN 1 ELSE 0)
           + (IF offs < 128 THEN 2 ELSE 0)

\* reuse, were offs = r0 left out: the copy taken from the gamma value 2
reuseGammaOffset(g) ==
    Let(g.ret, LAMBDA offs :
    Let([g EXCEPT !.kind = "reuse"], LAMBDA k :
    Let(getgamma(k), LAMBDA l :
    IF l.exc # "" THEN l ELSE calldstcopy(l, offs, l.ret))))

\* depack lines 107-109: the gamma-coded form reusing r0
reuse(g) ==
    Let(g.r0, LAMBDA offs :
    Let([g EXCEPT !.kind = "reuse"], LAMBDA k :
    Let(getgamma(k), LAMBDA l :
    IF l.exc # "" THEN l ELSE calldstcopy(l, offs, l.ret))))

\* depack lines 111-128: the gamma-coded form with an explicit offset
explicit(g) ==
    Let(IF g.lwm = 0 THEN g.ret - 3 ELSE g.ret - 2, LAMBDA o1 :
    Let(read(g), LAMBDA b :
    IF b.exc # "" THEN b
    ELSE Let((o1 * 256) + b.ret, LAMBDA offs :
         Let(getgamma(b), LAMBDA l :
         IF l.exc # "" THEN l
         ELSE Let(bump(offs, l.ret), LAMBDA length :
              Let(calldstcopy(l, offs, length), LAMBDA a :
              IF a.exc # "" THEN a
              ELSE [a EXCEPT !.r0 = offs]))))))

\* depack lines 104-130: the gamma-coded forms
gamma(c) ==
    Let([c EXCEPT !.kind = "gamma"], LAMBDA k :
    Let(getgamma(k), LAMBDA g :
    IF g.exc # "" THEN g
    ELSE Let(IF g.lwm = 0 /\ g.ret = 2 THEN reuse(g) ELSE explicit(g), LAMBDA a :
         IF a.exc # "" THEN a
         ELSE [a EXCEPT !.lwm = 1])))

\* depack lines 78-133: one pass of the main loop
instruction(s) ==
    Let(begin(s, "control"), LAMBDA c :
    Let(getbit(c), LAMBDA b1 :
    IF b1.exc # "" THEN b1
    ELSE IF b1.ret = 0 THEN literal(b1)
    ELSE Let(getbit(b1), LAMBDA b2 :
         IF b2.exc # "" THEN b2
         ELSE IF b2.ret = 0 THEN gamma(b2)
         ELSE Let(getbit(b2), LAMBDA b3 :
              IF b3.exc # "" THEN b3
              ELSE IF b3.ret = 1 THEN nibble(b3)
              ELSE short(b3)))))

\* outcome, were done not tested by the loop
outcomeIgnoresDone(s) ==
    IF s.exc # "" THEN (IF s.strict THEN "raise" ELSE "return")
    ELSE "loop"

\* depack lines 77 and 135-139: where the call stands after a pass:
\* "raise" (RuntimeError, strict mode), "return" (destination.getvalue())
\* or "loop"
outcome(s) ==
    IF s.exc # "" THEN (IF s.strict THEN "raise" ELSE "return")
    ELSE IF s.done THEN "return"
    ELSE "loop"

\* APLib.depack, run to its end: the object as the call leaves it
RECURSIVE mainloop(_)
mainloop(s) ==
    IF outcome(s) = "loop" THEN Let(instruction(s), LAMBDA n : mainloop(n)) ELSE s

depack(s) == Let(first(s), LAMBDA f : mainloop(f))

\* ------------------------------------------------- 32-bit words and crc32
\* An unsigned 32-bit value is kept as two 16-bit halves [hi, lo].
Word(n) == [hi |-> n \div 65536, lo |-> n % 65536]

RECURSIVE BitXor(_, _)
BitXor(a, b) ==
    IF a = 0 THEN b
    ELSE IF b = 0 THEN a
    ELSE (2 * BitXor(a \div 2, b \div 2)) + ((a + b) % 2)

WordXor(v, w) == [hi |-> BitXor(v.hi, w.hi), lo |-> BitXor(v.lo, w.lo)]

\* binascii.crc32 (src/aplib.py line 9): the reflected CRC-32, polynomial
\* 0xEDB88320, initial value and final xor 0xFFFFFFFF
CrcShift(c) ==
    Let([hi |-> c.hi \div 2, lo |-> (c.lo \div 2) + ((c.hi % 2) * 32768)],
        LAMBDA h :
        IF c.lo % 2 = 1 THEN WordXor(h, [hi |-> 60856, lo |-> 33568]) ELSE h)

RECURSIVE CrcBits(_, _)
CrcBits(c, n) ==
    IF n = 0 THEN c ELSE Let(CrcShift(c), LAMBDA d : CrcBits(d, n - 1))

CrcByte(c, b) ==
    CrcBits(WordXor(c, [hi |-> 0, lo |-> b]), 8)

RECURSIVE CrcFold(_, _, _)
CrcFold(c, data, k) ==
    IF k > Len(data) THEN c
    ELSE Let(CrcByte(c, data[k]), LAMBDA d : CrcFold(d, data, k + 1))

crc32(data) ==
    WordXor(CrcFold([hi |-> 65535, lo |-> 65535], data, 1),
            [hi |-> 65535, lo |-> 65535])

\* ------------------------------------------------------------ decompress
\* b'AP32'
Magic == <<65, 80, 51, 50>>

\* struct.unpack_from needs the 4 bytes of the magic and 5 fields of 4 bytes
HeaderBytes == 24

\* decompress, were strict its default
DefaultStrictSwapped == TRUE

\* def decompress(data, strict=False)
DefaultStrict == FALSE

startswith(data, m) == Len(data) >= Len(m) /\ Take(data, Len(m)) = m

\* one 'I' field of struct.unpack_from('=IIIII', data, 4), little-endian,
\* read at the 0-based offset off
unpack(data, off) ==
    [hi |-> data[off + 3] + (256 * data[off + 4]),
     lo |-> data[off + 1] + (256 * data[off + 2])]

\* data[header_size : header_size + packed_size]
packedslice(data, hs, ps) ==
    LET n == Len(data)
        a == IF hs.hi > 0 THEN n ELSE Min(hs.lo, n)
        b == IF hs.hi > 0 \/ ps.hi > 0 THEN n ELSE Min(hs.lo + ps.lo, n)
    IN  SubSeq(data, a + 1, b)

\* "crc32(x) != field".  Python 2's binascii.crc32 returns a signed value,
\* so under src/aplib_py2.py a checksum of 2^31 or more never equals the
\* unsigned field.
crcdiffers(variant, data, field) ==
    Let(crc32(data), LAMBDA c :
        IF variant = "py2" THEN c.hi >= 32768 \/ c # field ELSE c # field)

NoWord == Word(0)

\* the frame of a call of decompress before its first statement
NewFrame(variant, data, arg) ==
    [variant |-> variant, data |-> data, arg |-> arg,
     pc |-> "call", strict |-> FALSE, header |-> FALSE,
     input |-> <<>>,
     header_size |-> NoWord, packed_size |-> NoWord, packed_crc |-> NoWord,
     orig_size |-> NoWord, orig_crc |-> NoWord,
     error |-> "", result |-> <<>>]

\* no APLib object yet
NoAPLib == [NewAPLib(<<>>, FALSE) EXCEPT !.kind = "absent"]

\* does this call parse a header?  src/aplib.py line 146,
\* src/aplib_py2.py line 150
hasheader(f) ==
    IF f.variant = "py2"
    THEN startswith(f.data, Magic) /\ Len(f.data) >= HeaderBytes
    ELSE startswith(f.data, Magic)

\* decompress up to the construction of the APLib object: the frame with
\* pc "first" (the decoder is about to run on f.input) or "raised"
enter(f) ==
    LET strict == IF f.arg = "default" THEN DefaultStrict ELSE f.arg = "strict"
        g  == [f EXCEPT !.strict = strict]
        hs == unpack(f.data, 4)
        ps == unpack(f.data, 8)
        sl == packedslice(f.data, hs, ps)
        h  == [g EXCEPT !.header = TRUE, !.input = sl,
                        !.header_size = hs, !.packed_size = ps,
                        !.packed_crc = unpack(f.data, 12),
                        !.orig_size = unpack(f.data, 16),
                        !.orig_crc = unpack(f.data, 20)]
    IN  IF ~hasheader(f) THEN [g EXCEPT !.pc = "first", !.input = f.data]
        ELSE IF Len(f.data) < HeaderBytes
        THEN [g EXCEPT !.pc = "raised", !.error = "struct.error"]
        ELSE IF strict /\ Word(Len(sl)) # ps
        THEN [h EXCEPT !.pc = "raised", !.error = "Packed data size is incorrect"]
        ELSE IF strict /\ crcdiffers(f.variant, sl, h.packed_crc)
        THEN [h EXCEPT !.pc = "raised", !.error = "Packed data checksum is incorrect"]
        ELSE [h EXCEPT !.pc = "first"]

\* leave, were the checksum of the output not checked
leaveUnchecked(f) ==
    IF f.strict /\ f.header /\ Word(Len(f.result)) # f.orig_size
    THEN [f EXCEPT !.pc = "raised", !.error = "Unpacked data size is incorrect"]
    ELSE [f EXCEPT !.pc = "returned"]

\* decompress after depack has handed back result: the checks of the output
leave(f) ==
    IF f.strict /\ f.header /\ Word(Len(f.result)) # f.orig_size
    THEN [f EXCEPT !.pc = "raised", !.error = "Unpacked data size is incorrect"]
    ELSE IF f.strict /\ f.header /\ crcdiffers(f.variant, f.result, f.orig_crc)
    THEN [f EXCEPT !.pc = "raised", !.error = "Unpacked data checksum is incorrect"]
    ELSE [f EXCEPT !.pc = "returned"]

\* after, were an exception caught inside the loop in lenient mode, the
\* loop going on
afterSwallowed(f, s) ==
    IF s.exc # "" /\ ~s.strict THEN [f EXCEPT !.pc = "loop"]
    ELSE IF outcome(s) = "loop" THEN [f EXCEPT !.pc = "loop"]
    ELSE IF outcome(s) = "raise"
    THEN [f EXCEPT !.pc = "raised", !.error = "aPLib decompression error"]
    ELSE IF f.variant = "py3" /\ ~f.header
    THEN [f EXCEPT !.pc = "returned", !.result = s.destination]
    ELSE [f EXCEPT !.pc = "post", !.result = s.destination]

\* the frame once a pass of depack has left the object as s
after(f, s) ==
    IF outcome(s) = "loop" THEN [f EXCEPT !.pc = "loop"]
    ELSE IF outcome(s) = "raise"
    THEN [f EXCEPT !.pc = "raised", !.error = "aPLib decompression error"]
    ELSE IF f.variant = "py3" /\ ~f.header
    THEN [f EXCEPT !.pc = "returned", !.result = s.destination]
    ELSE [f EXCEPT !.pc = "post", !.result = s.destination]

\* decompress(data, strict) run to its end: the final frame
run(f) ==
    Let(enter(f), LAMBDA e :
    IF e.pc = "raised" THEN e
    ELSE Let(depack(NewAPLib(e.input, e.strict)), LAMBDA s :
         Let(after(e, s), LAMBDA a :
         IF a.pc = "post" THEN leave(a) ELSE a)))

\* ------------------------------------------------------------ the inputs
\* tag and data bytes of the exhaustive inputs: 0x00 (literals; end marker
\* byte), 0x02 (short form: offset 1, length 2), 0x40 (literal, then reuse
\* form), 0x80 (reuse form), 0xA0 (gamma-coded form, gamma 3), 0xC0 (short
\* form), 0xE0 (nibble 0), 0xE2 (nibble 1)
Alphabet == {0, 2, 64, 128, 160, 192, 224, 226}

\* the compressed fixture of main() and its plaintext
Fixture ==
    <<84, 0, 104, 101, 32, 113, 117, 105, 99, 107, 236, 98, 14, 114, 111,
      119, 110, 206, 102, 174, 120, 128, 106, 117, 109, 112, 115, 237, 228,
      118, 101, 117, 114, 96, 116, 63, 108, 97, 122, 121, 234, 100, 254,
      103, 192, 0>>

Plaintext ==
    <<84, 104, 101, 32, 113, 117, 105, 99, 107, 32, 98, 114, 111, 119, 110,
      32, 102, 111, 120, 32, 106, 117, 109, 112, 115, 32, 111, 118, 101,
      114, 32, 116, 104, 101, 32, 108, 97, 122, 121, 32, 100, 111, 103>>

\* longer streams: the fixture; short form, literal, reuse of r0, end
\* marker; short form, gamma-coded form, end marker; gamma-coded form with
\* offset 0, end marker; short form, nibble 0; a gamma code cut short;
\* literal, short form with offset 2 and length 3, end marker; short form,
\* nibble 1, end marker; end markers (bytes 0 and 1) with bytes after them
Samples ==
    {Fixture,
     <<65, 192, 0, 226, 64>>,
     <<65, 192, 1, 255>>,
     <<65, 220, 2, 112, 0>>,
     <<65, 108, 66, 5, 0>>,
     <<65, 200, 2, 66, 48, 0>>,
     <<65, 208, 2, 2, 96, 0>>,
     <<65, 163, 0, 0, 0>>,
     <<65, 220, 2, 0>>,
     <<65, 191>>}

\* packed streams carried in a container
Payloads ==
    {<<>>, <<65>>, <<65, 192, 0>>, <<65, 96, 66, 0>>, <<65, 192, 2>>,
     <<65, 160, 0, 192, 0>>}

Bytes4(w) == <<w.lo % 256, w.lo \div 256, w.hi % 256, w.hi \div 256>>

\* what the decoder appends, in lenient mode, on the packed stream d
LenientOutput(d) == depack(NewAPLib(d, FALSE)).destination

\* a container: the magic, the five fields, pad bytes, the payload
Container(pad, payload, ps, pcrc, osz, ocrc) ==
    Magic \o Bytes4(Word(HeaderBytes + Len(pad))) \o Bytes4(ps) \o Bytes4(pcrc)
          \o Bytes4(osz) \o Bytes4(ocrc) \o pad \o payload

\* containers whose fields are right or off by one (sizes) or by one bit
\* (checksums), and inputs that start with the magic and stop short
Containers ==
    {Magic, Magic \o <<24, 0, 0, 0>>} \cup
    UNION {
      LET n == Len(payload) IN
      UNION {
        LET sl  == Take(payload, Min(k, n))
            out == LenientOutput(sl)
        IN  {Container(pad, payload, Word(k), pcrc, osz, ocrc) :
               pcrc \in {crc32(sl), WordXor(crc32(sl), Word(1))},
               osz  \in {Word(Len(out)), Word(Len(out) + 1)},
               ocrc \in {crc32(out), WordXor(crc32(out), Word(1))}}
        : k \in {m \in {n - 1, n, n + 1} : m >= 0}}
      : pad \in {<<>>, <<0>>}, payload \in Payloads}

Args == {"default", "strict", "lenient"}

Frames ==
    {NewFrame("py3", d, a) : d \in AllSeqs(Alphabet, MaxLen) \cup Samples, a \in Args}
    \cup {NewFrame("py2", d, a) : d \in AllSeqs(Alphabet, MaxLenPy2), a \in Args}
    \cup {NewFrame(v, d, a) : v \in {"py3", "py2"}, d \in Containers, a \in Args}

\* ------------------------------------------------------------ the state
\* frame[i]: the i-th call of decompress; aplib[i]: its APLib object
VARIABLES frame, aplib

vars == <<frame, aplib>>

Calls == DOMAIN frame

Init ==
    /\ frame \in [{1} -> Frames]
    /\ aplib = [i \in {1} |-> NoAPLib]

\* decompress, from the call to the construction of the APLib object
Decompress(i) ==
    /\ frame[i].pc = "call"
    /\ \E e \in {enter(frame[i])} :
           /\ frame' = [frame EXCEPT ![i] = e]
           /\ aplib' = [aplib EXCEPT ![i] =
                          IF e.pc = "first" THEN NewAPLib(e.input, e.strict) ELSE @]

\* Pass, were tag and bitcount attributes of the class, shared by all
\* objects
PassShared(i, s) ==
    /\ aplib' = [j \in Calls |->
                   IF j = i THEN s
                   ELSE [aplib[j] EXCEPT !.tag = s.tag, !.bitcount = s.bitcount]]
    /\ frame' = [frame EXCEPT ![i] = after(@, s)]

\* the object and the frame of call i after a pass of depack left s
Pass(i, s) ==
    /\ aplib' = [aplib EXCEPT ![i] = s]
    /\ frame' = [frame EXCEPT ![i] = after(@, s)]

\* depack: the first byte
FirstByte(i) ==
    /\ frame[i].pc = "first"
    /\ \E s \in {first(aplib[i])} : Pass(i, s)

\* depack: the control bits end in the input's end
Exhausted(i) ==
    /\ frame[i].pc = "loop"
    /\ \E s \in {instruction(aplib[i])} : s.kind = "control" /\ Pass(i, s)

Literal(i) ==
    /\ frame[i].pc = "loop"
    /\ \E s \in {instruction(aplib[i])} : s.kind = "literal" /\ Pass(i, s)

Nibble(i) ==
    /\ frame[i].pc = "loop"
    /\ \E s \in {instruction(aplib[i])} : s.kind = "nibble" /\ Pass(i, s)

\* the short form, the end marker included
Short(i) ==
    /\ frame[i].pc = "loop"
    /\ \E s \in {instruction(aplib[i])} : s.kind = "short" /\ Pass(i, s)

Reuse(i) ==
    /\ frame[i].pc = "loop"
    /\ \E s \in {instruction(aplib[i])} : s.kind = "reuse" /\ Pass(i, s)

Gamma(i) ==
    /\ frame[i].pc = "loop"
    /\ \E s \in {instruction(aplib[i])} : s.kind = "gamma" /\ Pass(i, s)

\* decompress, after depack returned: the checks of the output
PostCheck(i) ==
    /\ frame[i].pc = "post"
    /\ frame' = [frame EXCEPT ![i] = leave(@)]
    /\ UNCHANGED aplib

Next ==
    \/ \E i \in Calls : Decompress(i)
    \/ \E i \in Calls : FirstByte(i)
    \/ \E i \in Calls : Exhausted(i)
    \/ \E i \in Calls : Literal(i)
    \/ \E i \in Calls : Nibble(i)
    \/ \E i \in Calls : Short(i)
    \/ \E i \in Calls : Reuse(i)
    \/ \E i \in Calls : Gamma(i)
    \/ \E i \in Calls : PostCheck(i)

Spec == Init /\ [][Next]_vars

\* the calls checked for termination: a call that has not returned or
\* raised goes on, the interpreter runs it
FairFrames ==
    {NewFrame(v, d, a) : v \in {"py3", "py2"},
                         d \in AllSeqs(Alphabet, MaxLenPy2) \cup Samples,
                         a \in Args}

InitFair ==
    /\ frame \in [{1} -> FairFrames]
    /\ aplib = [i \in {1} |-> NoAPLib]

FairSpec == InitFair /\ [][Next]_vars /\ WF_vars(Next)

\* two calls at once, each on its own object, their passes interleaved
ConcInputs ==
    {<<65>>, <<0, 226, 0>>, <<65, 200, 2, 66, 48, 0>>, <<65, 163, 0, 0, 0>>,
     <<65, 208, 2, 2, 96, 0>>}

ConcFrames ==
    {NewFrame("py3", d, a) : d \in ConcInputs, a \in {"strict", "lenient"}}
    \cup {NewFrame("py2", <<0, 226>>, "lenient")}

InitConc ==
    /\ frame \in [{1, 2} -> ConcFrames]
    /\ aplib = [i \in {1, 2} |-> NoAPLib]

SpecConc == InitConc /\ [][Next]_vars

\* streams with far back-references.  LongA: 160 copies of 8 bytes from
\* offset 1, then gamma-coded forms with the offsets 127, 128, 1279, 1280
\* (lwm 1), a literal, 1280 (lwm 0), a literal, 1279 (lwm 0), then 32000,
\* which lies before the start of the output.  LongB: 129 bytes, then the
\* offset 31999.  LongC, LongD: the offsets 32000 and 31999 right after the
\* first byte.
LongA ==
    <<65, 172, 1, 140, 1, 140, 1, 140, 1, 140, 1, 140, 1, 140, 1,
      140, 1, 140, 1, 140, 1, 140, 1, 140, 1, 140, 1, 140, 1, 140,
      1, 140, 1, 140, 1, 140, 1, 140, 1, 140, 1, 140, 1, 140, 1,
      140, 1, 140, 1, 140, 1, 140, 1, 140, 1, 140, 1, 140, 1, 140,
      1, 140, 1, 140, 1, 140, 1, 140, 1, 140, 1, 140, 1, 140, 1,
      140, 1, 140, 1, 140, 1, 140, 1, 140, 1, 140, 1, 140, 1, 140,
      1, 140, 1, 140, 1, 140, 1, 140, 1, 140, 1, 140, 1, 140, 1,
      140, 1, 140, 1, 140, 1, 140, 1, 140, 1, 140, 1, 140, 1, 140,
      1, 140, 1, 140, 1, 140, 1, 140, 1, 140, 1, 140, 1, 140, 1,
      140, 1, 140, 1, 140, 1, 140, 1, 140, 1, 140, 1, 140, 1, 140,
      1, 140, 1, 140, 1, 140, 1, 140, 1, 140, 1, 140, 1, 140, 1,
      140, 1, 140, 1, 140, 1, 140, 1, 140, 1, 140, 1, 140, 1, 140,
      1, 140, 1, 140, 1, 140, 1, 140, 1, 140, 1, 140, 1, 140, 1,
      140, 1, 140, 1, 140, 1, 140, 1, 140, 1, 140, 1, 140, 1, 140,
      1, 140, 1, 140, 1, 140, 1, 140, 1, 140, 1, 140, 1, 140, 1,
      140, 1, 140, 1, 140, 1, 140, 1, 140, 1, 140, 1, 140, 1, 140,
      1, 140, 1, 140, 1, 140, 1, 140, 1, 140, 1, 140, 1, 140, 1,
      140, 1, 140, 1, 140, 1, 140, 1, 140, 1, 140, 1, 140, 1, 140,
      1, 140, 1, 140, 1, 140, 1, 140, 1, 140, 1, 140, 1, 140, 1,
      140, 1, 140, 1, 140, 1, 140, 1, 140, 1, 140, 1, 140, 1, 140,
      1, 140, 1, 140, 1, 140, 1, 140, 1, 140, 1, 140, 1, 140, 1,
      140, 1, 140, 1, 140, 1, 130, 127, 11, 128, 11, 255, 132, 0, 66,
      164, 0, 67, 184, 255, 191, 248, 0, 192, 0>>

LongB ==
    <<65, 172, 1, 140, 1, 140, 1, 140, 1, 140, 1, 140, 1, 140, 1,
      140, 1, 140, 1, 140, 1, 140, 1, 140, 1, 140, 1, 140, 1, 140,
      1, 140, 1, 191, 242, 255, 192, 0>>

LongC == <<65, 149, 84, 0, 48, 0>>

LongD == <<65, 191, 249, 255, 176, 0>>

LongFrames ==
    {NewFrame("py3", d, a) : d \in {LongA, LongB, LongC, LongD},
                             a \in {"strict", "lenient"}}
    \cup {NewFrame("py2", d, "default") : d \in Samples \cup {<<65>>}}

InitLong ==
    /\ frame \in [{1} -> LongFrames]
    /\ aplib = [i \in {1} |-> NoAPLib]

SpecLong == InitLong /\ [][Next]_vars

\* the methods of the bit reader called one at a time, in any order, on an
\* object built directly: getbit, read, copy and getgamma.  The frame notes
\* the last byte fetched as a tag.
BitBytes == {0, 1, 128, 165, 255}

BitFrames == {[pc |-> "bits", data |-> d, tagbyte |-> 0] : d \in AllSeqs(BitBytes, MaxBitLen)}

InitBits ==
    /\ frame \in [{1} -> BitFrames]
    /\ aplib = [i \in {1} |-> NewAPLib(frame[i].data, TRUE)]

\* the frame after a method that reads bits left the object as s
Fetched(i, s) ==
    frame' = [frame EXCEPT ![i].tagbyte =
                 IF s.pos # aplib[i].pos THEN s.source[s.pos] ELSE @]

CallGetbit(i) ==
    /\ frame[i].pc = "bits" /\ aplib[i].exc = ""
    /\ \E s \in {getbit(aplib[i])} :
           aplib' = [aplib EXCEPT ![i] = s] /\ Fetched(i, s)

CallRead(i) ==
    /\ frame[i].pc = "bits" /\ aplib[i].exc = ""
    /\ aplib' = [aplib EXCEPT ![i] = read(@)]
    /\ UNCHANGED frame

CallCopy(i) ==
    /\ frame[i].pc = "bits" /\ aplib[i].exc = ""
    /\ aplib' = [aplib EXCEPT ![i] = copy(@, 1)]
    /\ UNCHANGED frame

CallGetgamma(i) ==
    /\ frame[i].pc = "bits" /\ aplib[i].exc = ""
    /\ \E s \in {getgamma(aplib[i])} :
           aplib' = [aplib EXCEPT ![i] = s] /\ Fetched(i, s)

NextBits ==
    \/ \E i \in Calls : CallGetbit(i)
    \/ \E i \in Calls : CallRead(i)
    \/ \E i \in Calls : CallCopy(i)
    \/ \E i \in Calls : CallGetgamma(i)

SpecBits == InitBits /\ [][NextBits]_vars

\* ------------------------------------------------------------ properties
Returned(i) == frame[i].pc = "returned"

Raised(i) == frame[i].pc = "raised"

Finished(i) == Returned(i) \/ Raised(i)

\* depack has returned to decompress
DepackReturned(i) == frame[i].pc \in {"post", "returned"}

\* depack has raised RuntimeError
DepackRaised(i) == Raised(i) /\ frame[i].error = "aPLib decompression error"

\* C1: a pass of depack that calls dstcopy with an offset outside
\* 1..len(output) appends no byte and ends the decoding with IndexError
\* (raised as a decode error in strict mode, an early return in lenient
\* mode); so every copy that appends uses an offset in 1..len(output).
C1_InvalidOffsetFails ==
    \A i \in Calls :
        (aplib[i].called /\ (aplib[i].offs < 1 \/ aplib[i].offs > aplib[i].n0))
        => /\ aplib[i].exc = "IndexError"
           /\ Len(aplib[i].destination) = aplib[i].n0
           /\ IF aplib[i].strict THEN DepackRaised(i) ELSE DepackReturned(i)

\* C2: in strict mode depack returns only after the end marker, and never
\* after the input was exhausted or a dstcopy was called with an offset
\* outside 1..len(output).
C2_StrictReturnsOnlyValid ==
    \A i \in Calls :
        (aplib[i].strict /\ DepackReturned(i))
        => aplib[i].done /\ aplib[i].exc = "" /\ ~aplib[i].badref

\* C3: lenient decoding of headerless data: the output on any prefix of
\* the input is a prefix of the output on the whole input.
C3_PrefixProperty ==
    \A i \in Calls :
        (Returned(i) /\ ~frame[i].strict /\ ~frame[i].header)
        => \A k \in 0..Len(frame[i].data) :
               IsPrefix(LenientOutput(Take(frame[i].data, k)), frame[i].result)

\* a lenient headerless call has returned, and some proper prefix of its
\* input decodes to a shorter, non-empty output
C3_Witness ==
    \E i \in Calls :
        /\ Returned(i) /\ ~frame[i].strict /\ ~frame[i].header
        /\ \E k \in 0..(Len(frame[i].data) - 1) :
               LET o == LenientOutput(Take(frame[i].data, k))
               IN  0 < Len(o) /\ Len(o) < Len(frame[i].result)

\* what the packed stream of a call is: the declared slice when the data
\* starts with the magic, the data otherwise
DeclaredInput(f) ==
    IF startswith(f.data, Magic) /\ Len(f.data) >= HeaderBytes
    THEN packedslice(f.data, unpack(f.data, 4), unpack(f.data, 8))
    ELSE f.data

\* C4: in lenient mode decompress never fails and returns what the decoder
\* had appended when it stopped, the decoder's input being the declared
\* slice when the magic is present.
C4_LenientNeverFails ==
    \A i \in Calls :
        (frame[i].pc # "call" /\ ~frame[i].strict)
        => /\ ~Raised(i)
           /\ Returned(i) =>
                 /\ frame[i].result = aplib[i].destination
                 /\ startswith(frame[i].data, Magic) =>
                        aplib[i].source = DeclaredInput(frame[i])

\* C5 as stated: a call that passes no mode does not run in lenient mode:
\* when its decoding fails, the call raises the decode error.
C5_DefaultIsNotLenient ==
    \A i \in Calls :
        (frame[i].arg = "default" /\ Finished(i) /\ aplib[i].exc # "")
        => DepackRaised(i)

\* C5, amended: a call that passes no mode runs in lenient mode: it never
\* raises the decode error, and when its decoding fails it returns the
\* output appended so far.  Strict mode is entered only on request.
C5_DefaultIsLenient ==
    \A i \in Calls :
        /\ (frame[i].arg = "default" /\ frame[i].pc # "call")
           => /\ ~frame[i].strict
              /\ ~DepackRaised(i)
              /\ (Finished(i) /\ aplib[i].exc # "")
                 => Returned(i) /\ frame[i].result = aplib[i].destination
        /\ frame[i].strict => frame[i].arg = "strict"

\* a call that passed no mode has returned a partial output
C5_Witness ==
    \E i \in Calls :
        /\ frame[i].arg = "default" /\ Returned(i)
        /\ aplib[i].exc # "" /\ ~aplib[i].done
        /\ Len(frame[i].result) > 0

\* the checks of the packed slice pass
PackedOk(f) ==
    Word(Len(f.input)) = f.packed_size /\ crc32(f.input) = f.packed_crc

\* the checks of the output pass
OutputOk(f) ==
    Word(Len(f.result)) = f.orig_size /\ crc32(f.result) = f.orig_crc

\* C6: strict mode with a header: a failed check of the packed slice raises
\* a size or checksum error before any decoder exists; an output is
\* returned only when the four checks pass; a decoded output that fails
\* its checks raises.
C6_StrictHeaderChecks ==
    \A i \in Calls :
        (frame[i].strict /\ frame[i].header /\ frame[i].pc # "call")
        => /\ ~PackedOk(frame[i]) =>
                 /\ Raised(i)
                 /\ frame[i].error \in {"Packed data size is incorrect",
                                        "Packed data checksum is incorrect"}
                 /\ aplib[i] = NoAPLib
           /\ Returned(i) => PackedOk(frame[i]) /\ OutputOk(frame[i])
           /\ (Finished(i) /\ aplib[i].kind # "absent" /\ frame[i].error # "aPLib decompression error"
               /\ ~OutputOk(frame[i]))
              => /\ Raised(i)
                 /\ frame[i].error \in {"Unpacked data size is incorrect",
                                        "Unpacked data checksum is incorrect"}

\* a strict call on a container has decoded its slice to the end marker and
\* raised on the checksum of the output
C6_Witness ==
    \E i \in Calls :
        /\ frame[i].strict /\ frame[i].header /\ aplib[i].done
        /\ Raised(i) /\ frame[i].error = "Unpacked data checksum is incorrect"
        /\ Len(frame[i].result) > 0 /\ crc32(frame[i].result) # frame[i].orig_crc

\* the bits of input the decoder has used up: 8 for each byte read, less
\* the bits of the tag not yet delivered
Consumed(s) == (8 * s.pos) - s.bitcount

\* C7: decoding terminates: every pass of depack that leaves the call in
\* its loop has used up at least one more bit of the finite input, and
\* every call ends, returning or raising.
C7_Terminates ==
    /\ [][\A i \in Calls :
            (frame[i].pc \in {"first", "loop"} /\ frame'[i].pc = "loop")
            => /\ Consumed(aplib'[i]) > Consumed(aplib[i])
               /\ Consumed(aplib'[i]) <= 8 * Len(aplib[i].source)]_vars
    /\ <>(\A i \in Calls : Finished(i))

\* a strict call has ended inside the gamma loop, the input exhausted
C7_Witness ==
    \E i \in Calls :
        /\ Raised(i) /\ aplib[i].strict
        /\ aplib[i].kind = "gamma" /\ aplib[i].exc = "TypeError"
        /\ Consumed(aplib[i]) > 8 * Len(aplib[i].source)

\* C8: two calls running at once on their own objects: each call ends as
\* it does run alone on the same data and mode, and leaves its object as
\* depack alone leaves it.
C8_NoInterference ==
    \A i \in Calls :
        Finished(i)
        => /\ frame[i] = run(NewFrame(frame[i].variant, frame[i].data, frame[i].arg))
           /\ aplib[i] = depack(NewAPLib(frame[i].input, frame[i].strict))

\* call 1 has ended with an output while call 2, on other data, is in the
\* middle of its loop
C8_Witness ==
    /\ Calls = {1, 2}
    /\ Returned(1) /\ Len(frame[1].result) > 1
    /\ frame[2].pc = "loop" /\ aplib[2].pos > 1 /\ aplib[2].bitcount > 0
    /\ frame[2].data # frame[1].data

\* C9 as stated: the fixture of main() is 47 bytes long and decodes, in
\* either mode, to the 43 bytes of the plaintext, ending at the end marker.
C9_Fixture47 ==
    \A i \in Calls :
        frame[i].data = Fixture
        => /\ Len(frame[i].data) = 47
           /\ Finished(i) =>
                 /\ Returned(i) /\ frame[i].result = Plaintext
                 /\ Len(frame[i].result) = 43
                 /\ aplib[i].done /\ aplib[i].exc = "" /\ ~aplib[i].badref

\* C9, amended: the fixture of main() is 46 bytes long and decodes, in
\* either mode, to the 43 bytes of the plaintext, ending at the end marker
\* with no exhaustion and no invalid back-reference.
C9_Fixture ==
    \A i \in Calls :
        frame[i].data = Fixture
        => /\ Len(frame[i].data) = 46
           /\ Finished(i) =>
                 /\ Returned(i) /\ frame[i].result = Plaintext
                 /\ Len(frame[i].result) = 43
                 /\ aplib[i].done /\ aplib[i].exc = "" /\ ~aplib[i].badref

\* a strict call on the fixture has returned
C9_Witness ==
    \E i \in Calls :
        frame[i].data = Fixture /\ frame[i].strict /\ Returned(i)

\* bit j (0 the most significant) of a byte
BitOf(byte, j) == (byte \div (2 ^ (7 - j))) % 2

\* the m-th bit the bit reader delivers next, no raw byte being read
\* meanwhile: from the byte in tag, then from the next unread byte
NextBit(s, m) ==
    IF m <= s.bitcount
    THEN BitOf(s.source[s.tagpos], (8 - s.bitcount) + (m - 1))
    ELSE BitOf(s.source[s.pos + 1], (m - s.bitcount) - 1)

\* C10: a completed nibble instruction (control bits 1,1,1) has read 4
\* further bits, most significant first, as v; it has appended one byte: 0
\* when v = 0, whatever r0 and the output, else the byte v positions
\* before the write position; r0 is unchanged and lwm is 0.
C10_Nibble ==
    [][\A i \in Calls :
         (frame[i].pc = "loop" /\ aplib'[i] # aplib[i]
          /\ aplib'[i].kind = "nibble" /\ aplib'[i].exc = "")
         => LET s == aplib[i]
                n == Len(s.destination)
                v == (8 * NextBit(s, 4)) + (4 * NextBit(s, 5))
                     + (2 * NextBit(s, 6)) + NextBit(s, 7)
            IN  /\ NextBit(s, 1) = 1 /\ NextBit(s, 2) = 1 /\ NextBit(s, 3) = 1
                /\ Consumed(aplib'[i]) = Consumed(s) + 7
                /\ v = 0 => aplib'[i].destination = Append(s.destination, 0)
                /\ v # 0 => /\ v <= n
                            /\ aplib'[i].destination =
                                   Append(s.destination, s.destination[(n - v) + 1])
                /\ aplib'[i].r0 = s.r0
                /\ aplib'[i].lwm = 0]_vars

\* a nibble instruction with value 0 has appended a zero byte after a short
\* back-reference had set r0
C10_Witness ==
    \E i \in Calls :
        /\ aplib[i].kind = "nibble" /\ aplib[i].exc = "" /\ ~aplib[i].called
        /\ aplib[i].r0 = 1 /\ aplib[i].lwm = 0
        /\ Len(aplib[i].destination) = aplib[i].n0 + 1
        /\ aplib[i].destination[Len(aplib[i].destination)] = 0

\* C11: a pass of depack that calls dstcopy with an offset in 1..n, n the
\* length of the output before the pass, and a length L raises nothing,
\* appends exactly L bytes and keeps the first n; the byte at index n+k is
\* the byte at index n+k-offset of the grown output, which is the byte at
\* index n-offset+(k mod offset) of the output before the pass (the last
\* offset bytes repeated; L copies of the last byte when offset = 1).
C11_BackReference ==
    [][\A i \in Calls :
         (frame[i].pc = "loop" /\ aplib'[i] # aplib[i] /\ aplib'[i].called
          /\ 1 <= aplib'[i].offs /\ aplib'[i].offs <= Len(aplib[i].destination))
         => LET old == aplib[i].destination
                new == aplib'[i].destination
                n   == Len(old)
                o   == aplib'[i].offs
                L   == aplib'[i].length
            IN  /\ aplib'[i].exc = ""
                /\ Len(new) = n + L
                /\ Take(new, n) = old
                /\ \A k \in 0..(L - 1) :
                       /\ new[(n + k) + 1] = new[((n + k) - o) + 1]
                       /\ new[(n + k) + 1] = old[((n - o) + (k % o)) + 1]
                       /\ o = 1 => new[(n + k) + 1] = old[n]]_vars

\* a back-reference with offset 2 and length 3 has appended the last two
\* bytes, which differ, and the first of them again
C11_Witness ==
    \E i \in Calls :
        /\ aplib[i].called /\ aplib[i].exc = ""
        /\ aplib[i].offs = 2 /\ aplib[i].length = 3 /\ aplib[i].n0 = 2
        /\ aplib[i].destination = <<65, 66, 65, 66, 65>>

\* C12: bitcount is in 0..7 in every state of the decoder, from its
\* construction to the end of the decoding, the state left by a refill that
\* found the input exhausted included.
C12_BitcountRange ==
    \A i \in Calls : aplib[i].bitcount \in 0..7

\* C13: every call of getbit that returns: it fetches a byte from the input
\* exactly when the number of calls before it is a multiple of 8 (the 1st,
\* 9th, 17th, ... call), the byte fetched being the next unread one; the
\* j-th call after a fetch returns bit 7-(j-1) of the byte fetched, 0 or 1,
\* whatever raw bytes were read meanwhile; tag is the byte shifted left j
\* times, never masked to 8 bits.
C13_GetbitMsbFirst ==
    [][\A i \in Calls :
         (frame[i].pc = "bits" /\ aplib'[i].nbits = aplib[i].nbits + 1
          /\ aplib'[i].exc = "")
         => LET s    == aplib[i]
                t    == aplib'[i]
                j    == s.nbits % 8
                byte == IF j = 0 THEN s.source[s.pos + 1] ELSE frame[i].tagbyte
            IN  /\ t.pos = (IF j = 0 THEN s.pos + 1 ELSE s.pos)
                /\ t.ret \in {0, 1}
                /\ t.ret = BitOf(byte, j)
                /\ t.tag = byte * (2 ^ (j + 1))
                /\ t.bitcount = 7 - j]_vars

\* the 9th call of getbit has returned a 1 from the second tag byte, a raw
\* byte read in between, and left a tag above 255
C13_Witness ==
    \E i \in Calls :
        /\ frame[i].pc = "bits" /\ aplib[i].nbits = 9 /\ aplib[i].pos = 3
        /\ aplib[i].bitcount = 7 /\ aplib[i].ret = 1 /\ aplib[i].tag > 255
        /\ frame[i].tagbyte = aplib[i].source[3]

\* C14: a raw byte read (read, or copy of one byte) that returns has taken
\* the next unread byte of the input, moved the cursor by exactly one and
\* left tag and bitcount as they were (copy appends the byte to the
\* output, read appends nothing); a later getbit that fetches no tag still
\* delivers the next bit of the tag byte fetched before the raw read; and
\* in every step the cursor only moves forward, within the input, the
\* input itself unchanged: each byte is taken once, in order, as a tag or
\* as a raw byte.
C14_RawRead ==
    [][\A i \in Calls :
         frame[i].pc = "bits"
         => LET s == aplib[i]
                t == aplib'[i]
            IN  /\ t.source = s.source
                /\ s.pos <= t.pos /\ t.pos <= Len(s.source)
                /\ (t # s /\ t.nbits = s.nbits /\ t.exc = "")
                   => /\ t.pos = s.pos + 1
                      /\ t.ret = s.source[s.pos + 1]
                      /\ t.tag = s.tag /\ t.bitcount = s.bitcount
                      /\ t.destination \in {s.destination,
                                             Append(s.destination, s.source[s.pos + 1])}
                      /\ frame'[i].tagbyte = frame[i].tagbyte
                /\ (t.nbits = s.nbits + 1 /\ t.exc = "" /\ t.pos = s.pos)
                   => t.ret = BitOf(frame[i].tagbyte, 8 - s.bitcount)
                /\ (t.nbits = s.nbits + 1 /\ t.exc = "" /\ t.pos = s.pos + 1)
                   => t.tag = 2 * s.source[s.pos + 1]]_vars

\* in the middle of a tag byte two raw bytes have been taken, one by copy
\* and one by read, and the bit read next was the fourth bit of the tag
C14_Witness ==
    \E i \in Calls :
        /\ frame[i].pc = "bits" /\ aplib[i].exc = ""
        /\ aplib[i].source = <<165, 128, 1>> /\ aplib[i].pos = 3
        /\ aplib[i].destination = <<128>>
        /\ aplib[i].nbits = 4 /\ aplib[i].bitcount = 4 /\ aplib[i].ret = 0
        /\ frame[i].tagbyte = 165

\* the m-th bit (m = 1, 2, ...) the bit reader is to deliver from the state
\* s when no raw byte is read meanwhile: the bits left of the tag byte,
\* then the unread bytes of the input, each most significant bit first
StreamBit(s, tagbyte, m) ==
    IF m <= s.bitcount
    THEN BitOf(tagbyte, (8 - s.bitcount) + (m - 1))
    ELSE BitOf(s.source[(s.pos + 1) + (((m - s.bitcount) - 1) \div 8)],
               ((m - s.bitcount) - 1) % 8)

\* the number written 1, then the data bits of the first k pairs
RECURSIVE GammaValue(_, _, _)
GammaValue(s, tagbyte, k) ==
    IF k = 0 THEN 1
    ELSE (2 * GammaValue(s, tagbyte, k - 1)) + StreamBit(s, tagbyte, (2 * k) - 1)

\* C15: a call of getgamma that returns has read 2k bits, k >= 1: k pairs
\* (data bit, continuation bit), the continuation bit 1 in every pair but
\* the last; it returns the number written 1 then the k data bits, which
\* lies in [2^k, 2^(k+1)) and is at least 2; so the offset the gamma-coded
\* form computes from it (depack lines 111-117) is never negative.
C15_Gamma ==
    [][\A i \in Calls :
         (frame[i].pc = "bits" /\ aplib'[i].nbits > aplib[i].nbits + 1
          /\ aplib'[i].exc = "")
         => LET s == aplib[i]
                t == aplib'[i]
                b == frame[i].tagbyte
                k == (t.nbits - s.nbits) \div 2
            IN  /\ t.nbits - s.nbits = 2 * k
                /\ Consumed(t) - Consumed(s) = 2 * k
                /\ \A p \in 1..(k - 1) : StreamBit(s, b, 2 * p) = 1
                /\ StreamBit(s, b, 2 * k) = 0
                /\ t.ret = GammaValue(s, b, k)
                /\ (2 ^ k) <= t.ret /\ t.ret < 2 ^ (k + 1) /\ t.ret >= 2
                /\ \A l \in {0, 1} :
                       ~(l = 0 /\ t.ret = 2)
                       => LET e == explicit([t EXCEPT !.lwm = l])
                          IN  e.called => e.offs >= 0]_vars

\* getgamma has returned 62 (binary 111110) from five pairs that span two
\* tag bytes
C15_Witness ==
    \E i \in Calls :
        /\ frame[i].pc = "bits" /\ aplib[i].exc = ""
        /\ aplib[i].nbits = 10 /\ aplib[i].pos = 2 /\ aplib[i].bitcount = 6
        /\ aplib[i].ret = 62 /\ aplib[i].destination = <<>>

\* the instruction the next pass of depack decodes, read off the input
\* bytes: control bit 0 is the literal; 1,0 the gamma-coded form, which
\* reuses r0 when lwm is 0 and the gamma code is 0,0 (the value 2); 1,1,1
\* the nibble; 1,1,0 the short form
Form(s) ==
    IF NextBit(s, 1) = 0 THEN "literal"
    ELSE IF NextBit(s, 2) = 0
    THEN (IF s.lwm = 0 /\ NextBit(s, 3) = 0 /\ NextBit(s, 4) = 0
          THEN "reuse" ELSE "explicit")
    ELSE IF NextBit(s, 3) = 1 THEN "nibble"
    ELSE "short"

\* a pass of the main loop of call i is taken and completes
Completes(i) ==
    frame[i].pc = "loop" /\ aplib'[i] # aplib[i] /\ aplib'[i].exc = ""

\* C16: lwm is 0 until the first pass of the main loop has completed, and
\* after every completed pass it is 1 exactly when the pass was a short
\* form or a gamma-coded form (reusing r0 or with an explicit offset); it is
\* 0 after a literal and after a nibble, also when the nibble copied a byte
\* from the output.
C16_LastWasMatch ==
    /\ [](\A i \in Calls : frame[i].pc \in {"call", "first"} => aplib[i].lwm = 0)
    /\ [][\A i \in Calls :
            /\ (frame[i].pc = "first" /\ aplib'[i] # aplib[i]) => aplib'[i].lwm = 0
            /\ Completes(i)
               => /\ aplib'[i].lwm = 1 <=> Form(aplib[i]) \in {"short", "reuse", "explicit"}
                  /\ aplib'[i].lwm = 0 <=> Form(aplib[i]) \in {"literal", "nibble"}]_vars

\* after a short form a nibble has copied a byte from the output and left
\* lwm 0
C16_Witness ==
    \E i \in Calls :
        /\ aplib[i].kind = "nibble" /\ aplib[i].exc = "" /\ aplib[i].called
        /\ aplib[i].offs = 1 /\ aplib[i].r0 = 1 /\ aplib[i].lwm = 0
        /\ Len(aplib[i].destination) = aplib[i].n0 + 1

\* the raw byte the short form reads: the byte after the tag, if the three
\* control bits needed one
ShortByte(s) ==
    IF s.bitcount >= 3 THEN s.source[s.pos + 1] ELSE s.source[s.pos + 2]

\* C17: a completed literal, nibble or gamma-coded form reusing r0 leaves
\* r0 as it was, and the reuse form copies from exactly that value; a
\* completed short form sets r0 to its byte shifted right by one, the
\* offset it copies from (0 for the end marker, which copies nothing); a
\* completed gamma-coded form with an explicit offset sets r0 to the offset
\* it copied from.
C17_LastOffset ==
    [][\A i \in Calls :
         Completes(i)
         => LET s == aplib[i]
                t == aplib'[i]
                f == Form(s)
            IN  /\ f \in {"literal", "nibble", "reuse"} => t.r0 = s.r0
                /\ f = "reuse" => t.called /\ t.offs = s.r0
                /\ f = "short"
                   => /\ t.r0 = ShortByte(s) \div 2
                      /\ t.called <=> t.r0 # 0
                      /\ t.called => t.offs = t.r0
                /\ f = "explicit" => t.called /\ t.r0 = t.offs
                /\ t.r0 # s.r0 => f \in {"short", "explicit"}]_vars

\* after a short form with offset 1 and a literal, the reuse form has
\* copied from offset 1 and left r0 at 1
C17_Witness ==
    \E i \in Calls :
        /\ aplib[i].kind = "reuse" /\ aplib[i].exc = "" /\ aplib[i].called
        /\ aplib[i].offs = 1 /\ aplib[i].r0 = 1
        /\ aplib[i].n0 >= 4 /\ Len(aplib[i].destination) > aplib[i].n0

\* the m-th bit a pass of depack reads from the state s, when the pass
\* reads one raw byte after its first c bits: the bits left of the tag,
\* then the bytes that follow, the raw byte skipped
PassBit(s, c, m) ==
    LET B == s.bitcount
        f == IF c <= B THEN 0 ELSE (((c - B) - 1) \div 8) + 1
        q == ((m - B) - 1) \div 8
        j == ((m - B) - 1) % 8
    IN  IF m <= B THEN BitOf(s.source[s.tagpos], (8 - B) + (m - 1))
        ELSE IF q < f THEN BitOf(s.source[(s.pos + 1) + q], j)
        ELSE BitOf(s.source[(s.pos + 2) + q], j)

\* the raw byte of such a pass
PassByte(s, c) ==
    LET B == s.bitcount
        f == IF c <= B THEN 0 ELSE (((c - B) - 1) \div 8) + 1
    IN  s.source[(s.pos + f) + 1]

\* the number of pairs of the gamma code that starts after bit from
RECURSIVE GammaPairs(_, _, _)
GammaPairs(s, c, from) ==
    IF PassBit(s, c, from + 2) = 0 THEN 1 ELSE 1 + GammaPairs(s, c, from + 2)

\* the value of the gamma code of k pairs that starts after bit from
RECURSIVE GammaAt(_, _, _, _)
GammaAt(s, c, from, k) ==
    IF k = 0 THEN 1
    ELSE (2 * GammaAt(s, c, from, k - 1)) + PassBit(s, c, (from + (2 * k)) - 1)

\* more bits than the input holds: no raw byte read yet
NoByteYet(s) == (8 * Len(s.source)) + 8

\* C18: a pass that decodes the gamma-coded form with an explicit offset,
\* g the first gamma value, b the raw byte and m the second gamma value as
\* they stand in the input: it calls dstcopy with the offset
\* ((g - 3) * 256) + b when lwm was 0 and ((g - 2) * 256) + b when lwm was
\* 1, and with the length m + 2 when offset < 128, m when 128 <= offset <
\* 1280, m + 1 when 1280 <= offset < 32000 and m + 2 when offset >= 32000
\* (the three bumps, each decided on the final offset, added up); and a
\* pass that completes has appended that many bytes.
C18_OffsetAndLength ==
    [][\A i \in Calls :
         (frame[i].pc = "loop" /\ aplib'[i] # aplib[i] /\ aplib'[i].called
          /\ aplib'[i].kind = "gamma")
         => LET s  == aplib[i]
                t  == aplib'[i]
                k1 == GammaPairs(s, NoByteYet(s), 2)
                g  == GammaAt(s, NoByteYet(s), 2, k1)
                c  == 2 + (2 * k1)
                b  == PassByte(s, c)
                k2 == GammaPairs(s, c, c)
                m  == GammaAt(s, c, c, k2)
                offset == IF s.lwm = 0 THEN ((g - 3) * 256) + b
                          ELSE ((g - 2) * 256) + b
                length == IF offset < 128 THEN m + 2
                          ELSE IF offset < 1280 THEN m
                          ELSE IF offset < 32000 THEN m + 1
                          ELSE m + 2
            IN  /\ PassBit(s, c, 1) = 1 /\ PassBit(s, c, 2) = 0
                /\ ~(s.lwm = 0 /\ g = 2)
                /\ t.offs = offset
                /\ t.length = length
                /\ t.length = ((m + (IF offset >= 32000 THEN 1 ELSE 0))
                                  + (IF offset >= 1280 THEN 1 ELSE 0))
                                  + (IF offset < 128 THEN 2 ELSE 0)
                /\ t.exc = "" => /\ Len(t.destination) = Len(s.destination) + length
                                 /\ t.r0 = offset
                /\ Consumed(t) - Consumed(s) = (c + 8) + (2 * k2)]_vars

\* a gamma-coded form has copied 3 bytes from offset 1280, lwm being 1
\* before it
C18_Witness ==
    \E i \in Calls :
        /\ aplib[i].kind = "gamma" /\ aplib[i].called /\ aplib[i].exc = ""
        /\ aplib[i].offs = 1280 /\ aplib[i].length = 3
        /\ aplib[i].n0 = 1289 /\ Len(aplib[i].destination) = 1292

\* C19: a completed short form (control bits 1,1,0) has read one raw byte
\* r.  When r >> 1 is not 0 it has copied 2 + (r & 1) bytes from the offset
\* r >> 1.  When r >> 1 is 0 it has appended nothing and set done; once
\* done is set the object never changes again (no bit, no byte is read,
\* nothing is appended), and depack returns the output as the end marker
\* found it, which is the output of the input cut right after the marker.
C19_ShortAndEndMarker ==
    /\ [][\A i \in Calls :
            /\ (Completes(i) /\ Form(aplib[i]) = "short")
               => LET s == aplib[i]
                      t == aplib'[i]
                      r == ShortByte(s)
                  IN  /\ Consumed(t) = Consumed(s) + 11
                      /\ r \div 2 # 0
                         => /\ ~t.done /\ t.called
                            /\ t.offs = r \div 2 /\ t.length = 2 + (r % 2)
                            /\ Len(t.destination) = Len(s.destination) + t.length
                      /\ r \div 2 = 0
                         => t.done /\ ~t.called /\ t.destination = s.destination
            /\ aplib[i].done => aplib'[i] = aplib[i]]_vars
    /\ [](\A i \in Calls :
            (aplib[i].done /\ frame[i].pc # "loop")
            => /\ ~DepackRaised(i)
               /\ frame[i].result = aplib[i].destination
               /\ frame[i].result =
                      LenientOutput(Take(aplib[i].source, aplib[i].pos)))

\* a call has returned at an end marker with byte 1, a byte of the input
\* left unread
C19_Witness ==
    \E i \in Calls :
        /\ Returned(i) /\ aplib[i].done /\ aplib[i].kind = "short"
        /\ aplib[i].pos = 3 /\ aplib[i].source[3] = 1
        /\ Len(aplib[i].source) = 4
        /\ frame[i].result = <<65>>

\* C20: the first step of depack reads no control bit.  On a non-empty
\* input it leaves an output of length 1 holding input[0], the cursor at 1
\* and the tag empty, so that the first control bit, which decides
\* between a literal and the other forms, is the top bit of input[1], and a
\* one-byte input is exhausted there.  On the empty input it fails as
\* exhaustion: the decode error in strict mode, the empty output in
\* lenient mode.
C20_FirstByte ==
    [][\A i \in Calls :
         /\ (frame[i].pc = "first" /\ aplib'[i] # aplib[i])
            => LET s == aplib[i]
                   t == aplib'[i]
               IN  /\ t.nbits = 0 /\ t.bitcount = 0 /\ t.tag = 0
                   /\ s.source # <<>>
                      => /\ t.exc = "" /\ t.pos = 1
                         /\ t.destination = <<s.source[1]>>
                         /\ frame'[i].pc = "loop"
                   /\ s.source = <<>>
                      => /\ t.exc = "TypeError" /\ t.pos = 0
                         /\ t.destination = <<>>
                         /\ IF s.strict THEN DepackRaised(i)'
                            ELSE DepackReturned(i)' /\ frame'[i].result = <<>>
         /\ (frame[i].pc = "loop" /\ aplib[i].nbits = 0 /\ aplib'[i] # aplib[i])
            => IF Len(aplib[i].source) = 1
               THEN aplib'[i].exc = "TypeError" /\ aplib'[i].kind = "control"
               ELSE /\ aplib'[i].nbits > 0
                    /\ aplib'[i].kind = "literal" <=> BitOf(aplib[i].source[2], 0) = 0]_vars

\* after the first byte a literal has been decoded, its control bit the
\* top bit of the second byte of the input
C20_Witness ==
    \E i \in Calls :
        /\ aplib[i].kind = "literal" /\ aplib[i].exc = ""
        /\ aplib[i].n0 = 1 /\ aplib[i].nbits = 1 /\ aplib[i].pos = 3
        /\ aplib[i].destination = <<aplib[i].source[1], aplib[i].source[3]>>

====
